---- MODULE Spec2Model ----
(***************************************************************************)
(* The MCP connection manager of movedot-motorsports-agent:                *)
(*   MCPClient  (src/src/mcp/client.py)          one session per provider  *)
(*   MCPManager (src/src/backend/mcp/manager.py) the registry and its lock *)
(*   ensure_user_servers_connected (src/src/api/mcp_routes.py) reconcile   *)
(*                                                                         *)
(* Everything runs on one asyncio event loop: a coroutine runs until it    *)
(* suspends (provider I/O, or an asyncio.Lock that is not free), and only  *)
(* then another coroutine runs.  `running` is the coroutine that holds the *)
(* loop; each action is one stretch of straight-line code of a coroutine.  *)
(***************************************************************************)
EXTENDS Integers, Sequences, FiniteSets, TLC

\* ------------------------------------------------------------ bounds
NumServers == 2

ServerIds == 1..NumServers
Users     == {1, 2}
Passes    == {"p1", "p2"}
Callers   == {"c1"}
Aggs      == {"g1"}
Tasks     == Passes \cup Callers \cup Aggs
\* Heap slots: the registry and every coroutine can each hold one object.
ClientIds == 1..(NumServers + Cardinality(Tasks))

\* Python's None where a client reference is expected.
None == 0

VARIABLES
    store,      \* mcp_servers table: server id -> row
    _clients,   \* MCPManager._clients: server id -> client object (None: no key)
    _lock,      \* MCPManager._lock: the task holding it, or "none"
    waiters,    \* asyncio.Lock._waiters, in arrival order
    obj,        \* heap of MCPClient objects
    task,       \* per coroutine: position and manager-call frame
    pass,       \* locals of ensure_user_servers_connected
    call,       \* locals of MCPManager.call_tool / get_resource
    agg,        \* locals of MCPManager.get_all_tools / get_all_resources
    running,    \* the coroutine that holds the event loop, or "none"
    leaked,     \* server ids whose transport the latest step dropped while open
    last,       \* history: the user whose reconcile pass was the last thing
                \* to happen (0: something else happened since)
    unit,       \* one MCPClient driven through its public methods, with the
                \* outcome of the latest call
    chat        \* the agent side: langchain_adapter._global_mcp_client and the
                \* locals of each chat request

vars == <<store, _clients, _lock, waiters, obj, task, pass, call, agg, running,
          leaked, last, unit, chat>>

\* ------------------------------------------------------------ config store
\* The user_id column of a row.
OwnerOf(id) == store[id].user_id

\* The name column of a row.
NameOf(id) == CASE id = 1 -> "alpha" [] id = 2 -> "beta" [] OTHER -> "gamma"

\* The tools and resources provider `id` answers with.
ProviderTools(id)     == IF id = 1 THEN {"ping"} ELSE {"ping", "laps"}
ProviderResources(id) == IF id = 1 THEN {"doc"} ELSE {"doc", "faq"}

\* list_mcp_servers(user_id, enabled_only=True), as the set of ids.
list_mcp_servers(user) ==
    {id \in ServerIds : /\ store[id].exists
                        /\ OwnerOf(id) = user
                        /\ store[id].enabled}

\* ORDER BY created_at DESC: ids are handed out in creation order.
RECURSIVE Descending(_)
Descending(S) ==
    IF S = {} THEN <<>>
    ELSE LET m == CHOOSE x \in S : \A y \in S : y <= x
         IN <<m>> \o Descending(S \ {m})

\* ------------------------------------------------------------ MCPClient object
NoneCache == [some |-> FALSE, items |-> {}]

\* MCPClient.__init__
NewClient(sid) ==
    [alloc |-> TRUE, server_id |-> sid, server_type |-> store[sid].server_type,
     connected |-> FALSE, session |-> FALSE, stack |-> 0,
     tools_cache |-> NoneCache, resources_cache |-> NoneCache]

Unallocated ==
    [alloc |-> FALSE, server_id |-> 0, server_type |-> "stdio",
     connected |-> FALSE, session |-> FALSE, stack |-> 0,
     tools_cache |-> NoneCache, resources_cache |-> NoneCache]

\* MCPClient.is_connected
is_connected(o) == o.connected /\ o.session

\* An entry of a capability list as the session caches it: a dict with the
\* provider's fields, to which get_all_tools adds the two _mcp_server_* keys
\* (sid = 0: the keys are absent).
Entry(n) == [name |-> n, sid |-> 0, sname |-> ""]
Tagged(e, o) == [e EXCEPT !.sid = o.server_id, !.sname = NameOf(o.server_id)]

\* MCPClient._cleanup_resources: the exit stack is closed and replaced.
_cleanup_resources(o) == [o EXCEPT !.stack = 0, !.session = FALSE]

\* MCPClient.disconnect, had the caches been left as they were.
disconnect_body_keep_caches(o) ==
    [_cleanup_resources(o) EXCEPT !.connected = FALSE]

\* MCPClient.disconnect past its `if not self._connected: return`.
disconnect_body(o) ==
    [_cleanup_resources(o) EXCEPT !.connected = FALSE,
                                  !.tools_cache = NoneCache,
                                  !.resources_cache = NoneCache]

\* MCPClient._connect_stdio, success path: one more transport on the stack.
connect_ok(o) == [o EXCEPT !.stack = @ + 1, !.session = TRUE, !.connected = TRUE]
\* MCPClient._connect_stdio, had the except path not cleaned up.
connect_failed_no_cleanup(o) == o

\* MCPClient._connect_stdio, except path.
connect_failed(o) == _cleanup_resources(o)

\* ------------------------------------------------------------ heap
\* Every place a reference to an MCPClient is held, in a fixed order: the
\* registry's values, then each coroutine's locals.
TaskOrder == <<"p1", "p2", "c1", "g1">>

RECURSIVE TaskRefs(_, _)
TaskRefs(tk, i) ==
    IF i > Len(TaskOrder) THEN <<>>
    ELSE <<tk[TaskOrder[i]].client, tk[TaskOrder[i]].marg_client,
           tk[TaskOrder[i]].mret>> \o TaskRefs(tk, i + 1)

Refs(cl, tk) == [s \in ServerIds |-> cl[s]] \o TaskRefs(tk, 1)

\* The live objects in the order of their first reference.
RECURSIVE FirstRefs(_, _, _)
FirstRefs(r, i, acc) ==
    IF i > Len(r) THEN acc
    ELSE IF r[i] = None \/ \E j \in 1..Len(acc) : acc[j] = r[i]
         THEN FirstRefs(r, i + 1, acc)
         ELSE FirstRefs(r, i + 1, Append(acc, r[i]))

\* Addresses carry no meaning: after each step the live objects are numbered
\* in the order of their first reference.  Unreferenced objects are garbage
\* and their slots are free; a transport still on the exit stack of such an
\* object is never closed.
Commit(o, cl, tk) ==
    LET live == FirstRefs(Refs(cl, tk), 1, <<>>)
        addr == [c \in ClientIds \cup {None} |->
                    IF \E i \in 1..Len(live) : live[i] = c
                    THEN CHOOSE i \in 1..Len(live) : live[i] = c
                    ELSE None]
    IN /\ obj' = [a \in ClientIds |->
                    IF a <= Len(live) THEN o[live[a]] ELSE Unallocated]
       /\ _clients' = [s \in ServerIds |-> addr[cl[s]]]
       /\ task' = [t \in Tasks |->
                     [tk[t] EXCEPT !.client = addr[@],
                                   !.marg_client = addr[@],
                                   !.mret = addr[@]]]
       /\ leaked' =
              {o[c].server_id : c \in {d \in ClientIds :
                  addr[d] = None /\ o[d].alloc /\ o[d].stack > 0}}

FreeSlots == {c \in ClientIds : ~obj[c].alloc}
NewSlot == CHOOSE c \in FreeSlots : \A d \in FreeSlots : c <= d

\* ------------------------------------------------------------ event loop, lock
CanRun(t) == running = t \/ running = "none"

\* The lock, had add_client and remove_client not taken it.
LockAvailableNoLock(t) == TRUE

\* asyncio.Lock.acquire returns at once: the lock is free and nobody queues
\* (or release() has handed the lock to this waiter).
LockAvailable(t) ==
    \/ _lock = t
    \/ _lock = "none" /\ waiters = <<>>

\* asyncio.Lock.release: the first waiter is woken and owns the lock next.
Release ==
    IF waiters = <<>> THEN /\ _lock' = "none" /\ waiters' = waiters
    ELSE /\ _lock' = Head(waiters) /\ waiters' = Tail(waiters)

Hold(t) == /\ _lock' = t /\ waiters' = waiters

AcqOps == {"get_acq", "list_acq", "add_acq", "rm_acq", "agg_acq"}

InWaiters(t) == \E i \in 1..Len(waiters) : waiters[i] = t

\* async with self._lock, when the lock is taken: the coroutine suspends.
LockBlock(t) ==
    /\ CanRun(t)
    /\ task[t].mop \in AcqOps
    /\ ~LockAvailable(t)
    /\ ~InWaiters(t)
    /\ waiters' = Append(waiters, t)
    /\ running' = "none"
    /\ UNCHANGED <<chat, unit, store, _clients, _lock, obj, task, pass, leaked, last, call, agg>>

\* ------------------------------------------------------------ MCPManager
IdleFrame ==
    [pc |-> "idle", mop |-> "none", marg |-> 0, marg_client |-> None,
     mret |-> None, mok |-> FALSE, mlist |-> {}, client |-> None,
     nconnect |-> 0, ndisconnect |-> 0, rm_live |-> FALSE]

\* MCPManager.get_client
get_client(t) ==
    /\ CanRun(t)
    /\ task[t].mop = "get_acq"
    /\ LockAvailable(t)
    /\ IF _lock = t THEN Release ELSE UNCHANGED <<_lock, waiters>>
    /\ Commit(obj, _clients, [task EXCEPT ![t].mop = "none",
                                          ![t].mret = _clients[task[t].marg]])
    /\ running' = t
    /\ UNCHANGED <<chat, unit, store, pass, last, call, agg>>

\* MCPManager.list_clients
list_clients(t) ==
    /\ CanRun(t)
    /\ task[t].mop = "list_acq"
    /\ LockAvailable(t)
    /\ IF _lock = t THEN Release ELSE UNCHANGED <<_lock, waiters>>
    /\ task' = [task EXCEPT ![t].mop = "none",
                            ![t].mlist = {s \in ServerIds : _clients[s] # None}]
    /\ running' = t
    /\ UNCHANGED <<chat, unit, store, _clients, obj, pass, leaked, last, call, agg>>

\* MCPManager.add_client, had connect() begun without the duplicate check.
add_client_enter_unchecked(t) ==
    /\ CanRun(t)
    /\ task[t].mop = "add_acq"
    /\ LockAvailable(t)
    /\ Hold(t)
    /\ task' = [task EXCEPT ![t].mop = "add_connecting", ![t].nconnect = @ + 1]
    /\ running' = "none"
    /\ UNCHANGED <<chat, unit, store, _clients, obj, leaked, pass, last, call, agg>>

\* MCPManager.add_client, lines 37-43: the duplicate check, then connect()
\* begins under the lock.  An http/sse client's connect() returns False at once.
add_client_enter(t) ==
    /\ CanRun(t)
    /\ task[t].mop = "add_acq"
    /\ LockAvailable(t)
    /\ LET c == task[t].marg_client
           sid == obj[c].server_id
       IN IF _clients[sid] # None
          THEN /\ IF _lock = t THEN Release ELSE UNCHANGED <<_lock, waiters>>
               /\ Commit(obj, _clients,
                         [task EXCEPT ![t].mop = "none", ![t].mok = FALSE,
                                      ![t].marg_client = None])
               /\ running' = t
          ELSE IF obj[c].server_type # "stdio"
          THEN /\ IF _lock = t THEN Release ELSE UNCHANGED <<_lock, waiters>>
               /\ Commit(obj, _clients,
                         [task EXCEPT ![t].mop = "none", ![t].mok = FALSE,
                                      ![t].marg_client = None,
                                      ![t].nconnect = @ + 1])
               /\ running' = t
          ELSE /\ Hold(t)
               /\ task' = [task EXCEPT ![t].mop = "add_connecting",
                                       ![t].nconnect = @ + 1]
               /\ running' = "none"
               /\ UNCHANGED <<_clients, obj, leaked>>
    /\ UNCHANGED <<chat, unit, store, pass, last, call, agg>>

\* MCPManager.add_client, lines 43-58: connect() returns; on success
\* list_tools() fills the tools cache (or fails and yields []), and the
\* client is registered.
\* add_client that registers the session whatever connect() answered.
add_client_finish_always_registers(t, outcome) ==
    /\ running = "none"
    /\ task[t].mop = "add_connecting"
    /\ LET c == task[t].marg_client
           sid == obj[c].server_id
           tk(ok) == [task EXCEPT ![t].mop = "none", ![t].mok = ok,
                                  ![t].marg_client = None]
       IN IF outcome = "failed"
          THEN Commit([obj EXCEPT ![c] = connect_failed(@)],
                      [_clients EXCEPT ![sid] = c], tk(FALSE))
          ELSE Commit([obj EXCEPT ![c] = connect_ok(@)],
                      [_clients EXCEPT ![sid] = c], tk(TRUE))
    /\ Release
    /\ running' = t
    /\ UNCHANGED <<chat, unit, store, pass, last, call, agg>>

add_client_finish(t, outcome) ==
    /\ running = "none"
    /\ task[t].mop = "add_connecting"
    /\ LET c == task[t].marg_client
           sid == obj[c].server_id
           tk(ok) == [task EXCEPT ![t].mop = "none", ![t].mok = ok,
                                  ![t].marg_client = None]
       IN CASE outcome = "connected_listed" ->
                 Commit([obj EXCEPT ![c] =
                            [connect_ok(@) EXCEPT !.tools_cache =
                                [some |-> TRUE,
                                 items |-> {Entry(n) : n \in ProviderTools(sid)}]]],
                        [_clients EXCEPT ![sid] = c], tk(TRUE))
            [] outcome = "connected_unlisted" ->
                 Commit([obj EXCEPT ![c] = connect_ok(@)],
                        [_clients EXCEPT ![sid] = c], tk(TRUE))
            [] outcome = "failed" ->
                 Commit([obj EXCEPT ![c] = connect_failed(@)], _clients, tk(FALSE))
    /\ Release
    /\ running' = t
    /\ UNCHANGED <<chat, unit, store, pass, last, call, agg>>

ConnectOutcomes == {"connected_listed", "connected_unlisted", "failed"}

\* MCPManager.remove_client, lines 62-68: absent key, or disconnect() of a
\* client whose flag is down returns at once and the key is deleted; else
\* disconnect() suspends in _cleanup_resources with the lock held.
remove_client_enter(t) ==
    /\ CanRun(t)
    /\ task[t].mop = "rm_acq"
    /\ LockAvailable(t)
    /\ LET sid == task[t].marg
           c == _clients[sid]
       IN IF c = None
          THEN /\ IF _lock = t THEN Release ELSE UNCHANGED <<_lock, waiters>>
               /\ task' = [task EXCEPT ![t].mop = "none", ![t].mok = FALSE]
               /\ running' = t
               /\ UNCHANGED <<_clients, obj, leaked>>
          ELSE IF ~obj[c].connected
          THEN /\ IF _lock = t THEN Release ELSE UNCHANGED <<_lock, waiters>>
               /\ Commit(obj, [_clients EXCEPT ![sid] = None],
                         [task EXCEPT ![t].mop = "none", ![t].mok = TRUE,
                                      ![t].ndisconnect = @ + 1,
                                      ![t].rm_live = @ \/ is_connected(obj[c])])
               /\ running' = t
          ELSE /\ Hold(t)
               /\ task' = [task EXCEPT ![t].mop = "rm_disconnecting",
                                       ![t].marg_client = c,
                                       ![t].ndisconnect = @ + 1]
               /\ running' = "none"
               /\ UNCHANGED <<_clients, obj, leaked>>
    /\ UNCHANGED <<chat, unit, store, pass, last, call, agg>>

\* MCPManager.remove_client, had the key been left in the registry.
remove_client_finish_keep_key(t) ==
    /\ running = "none"
    /\ task[t].mop = "rm_disconnecting"
    /\ LET c == task[t].marg_client
       IN Commit([obj EXCEPT ![c] = disconnect_body(@)], _clients,
                 [task EXCEPT ![t].mop = "none", ![t].mok = TRUE,
                              ![t].marg_client = None])
    /\ Release
    /\ running' = t
    /\ UNCHANGED <<chat, unit, store, pass, last, call, agg>>

\* MCPManager.remove_client, lines 68-74: the cleanup is over, the flags and
\* caches are reset, the key is deleted.
remove_client_finish(t) ==
    /\ running = "none"
    /\ task[t].mop = "rm_disconnecting"
    /\ LET sid == task[t].marg
           c == task[t].marg_client
       IN Commit([obj EXCEPT ![c] = disconnect_body(@)],
                 [_clients EXCEPT ![sid] = None],
                 [task EXCEPT ![t].mop = "none", ![t].mok = TRUE,
                              ![t].marg_client = None,
                              ![t].rm_live = @ \/ is_connected(disconnect_body(obj[c]))])
    /\ Release
    /\ running' = t
    /\ UNCHANGED <<chat, unit, store, pass, last, call, agg>>

\* ------------------------------------------------------------ reconcile
EmptyHeap == [c \in ClientIds |-> Unallocated]
EmptyRegistry == [s \in ServerIds |-> None]

\* The registry by value: the session registered under each id.
Registered ==
    [s \in ServerIds |-> IF _clients[s] = None THEN Unallocated
                         ELSE obj[_clients[s]]]

IdlePass ==
    [owner |-> 0, enabled |-> {}, todo |-> <<>>, stale |-> {},
     ok |-> {}, failed |-> {}, found_stale |-> {}, repeat |-> FALSE,
     snap |-> [s \in ServerIds |-> Unallocated],
     connfail |-> {}, overlap |-> "no", peer_enabled |-> {},
     peer_connfail |-> {}]

\* A manager call from a coroutine: the frame is set up and control resumes
\* at `ret` when the call has returned.
Call(t, op, sid, c, ret) ==
    [task EXCEPT ![t].mop = op, ![t].marg = sid, ![t].marg_client = c,
                 ![t].mret = None, ![t].pc = ret]

AtPc(t, where) == CanRun(t) /\ task[t].pc = where /\ task[t].mop = "none"

\* Once anything else happens, a pass in flight no longer directly follows
\* the pass before it.
NotInARow(ps) ==
    [q \in Passes |-> [ps[q] EXCEPT !.repeat = FALSE, !.snap = IdlePass.snap]]

\* History: the passes of `user` that are in flight when another pass of
\* that user starts run concurrently with it.
InFlightFor(user) == {q \in Passes : task[q].pc # "idle" /\ pass[q].owner = user}
Overlapping(ps, user) ==
    [q \in Passes |-> IF q \in InFlightFor(user)
                      THEN [ps[q] EXCEPT !.overlap = "running"] ELSE ps[q]]

\* History: the pass that ran concurrently with the returning pass p learns
\* what p read and which of p's connects failed.
PeerLeaves(ps, p) ==
    [q \in Passes |->
        IF q # p /\ ps[q].overlap = "running" /\ ps[p].overlap # "no"
        THEN [ps[q] EXCEPT !.overlap = "finished",
                           !.peer_enabled = ps[p].enabled,
                           !.peer_connfail = ps[p].connfail]
        ELSE ps[q]]

\* ensure_user_servers_connected, lines 88-89: the enabled rows are read once.
ensure_start(p, user) ==
    /\ running = "none"
    /\ task[p].pc = "idle"
    /\ LET enabled == list_mcp_servers(user)
           again == last = user
       IN pass' = [Overlapping(NotInARow(pass), user) EXCEPT ![p] =
                [IdlePass EXCEPT !.owner = user, !.enabled = enabled,
                                 !.todo = Descending(enabled),
                                 !.overlap = IF InFlightFor(user) # {}
                                             THEN "running" ELSE "no",
                                 !.repeat = again,
                                 !.snap = IF again THEN Registered
                                          ELSE IdlePass.snap]]
    /\ task' = [task EXCEPT ![p] = [IdleFrame EXCEPT !.pc = "loop1"]]
    /\ running' = p
    /\ last' = 0
    /\ UNCHANGED <<chat, unit, store, _clients, _lock, waiters, obj, leaked, call, agg>>

\* line 91-92 and 113: the next enabled server is looked up; after the last
\* one the registered clients are listed.
ensure_loop1(p) ==
    /\ AtPc(p, "loop1")
    /\ IF pass[p].todo = <<>>
       THEN task' = Call(p, "list_acq", 0, None, "listed")
       ELSE task' = Call(p, "get_acq", Head(pass[p].todo), None, "got")
    /\ running' = p
    /\ UNCHANGED <<chat, unit, store, _clients, _lock, waiters, obj, pass, leaked, last, call, agg>>

\* lines 94-96, had every existing client been replaced.
ensure_got_replace(p) ==
    /\ AtPc(p, "got")
    /\ LET existing == task[p].mret
           sid == Head(pass[p].todo)
       IN IF existing = None
          THEN Commit(obj, _clients, [task EXCEPT ![p].pc = "create"])
          ELSE Commit(obj, _clients, Call(p, "rm_acq", sid, None, "create"))
    /\ running' = p
    /\ UNCHANGED <<chat, unit, store, _lock, waiters, pass, last, call, agg>>

\* lines 94-96: a connected client is kept; a stale one is removed first.
ensure_got(p) ==
    /\ AtPc(p, "got")
    /\ LET existing == task[p].mret
           sid == Head(pass[p].todo)
       IN IF existing = None
          THEN /\ Commit(obj, _clients, [task EXCEPT ![p].pc = "create"])
               /\ pass' = pass
          ELSE IF ~is_connected(obj[existing])
          THEN /\ Commit(obj, _clients, Call(p, "rm_acq", sid, None, "create"))
               /\ pass' = pass
          ELSE /\ Commit(obj, _clients,
                         [task EXCEPT ![p].pc = "loop1", ![p].mret = None])
               /\ pass' = [pass EXCEPT ![p].todo = Tail(@)]
    /\ running' = p
    /\ UNCHANGED <<chat, unit, store, _lock, waiters, last, call, agg>>

\* lines 98-109: a fresh MCPClient is built from the row and handed to add_client.
ensure_create(p) ==
    /\ AtPc(p, "create")
    /\ FreeSlots # {}
    /\ LET c == NewSlot
           sid == Head(pass[p].todo)
       IN Commit([obj EXCEPT ![c] = NewClient(sid)], _clients,
                 Call(p, "add_acq", sid, c, "added"))
    /\ running' = p
    /\ UNCHANGED <<chat, unit, store, _lock, waiters, pass, last, call, agg>>

\* lines 109-111, had a failed add_client ended the loop.
ensure_added_abort(p) ==
    /\ AtPc(p, "added")
    /\ LET sid == Head(pass[p].todo)
       IN pass' = [pass EXCEPT ![p].todo = IF task[p].mok THEN Tail(@) ELSE <<>>,
                               ![p].ok = IF task[p].mok THEN @ \cup {sid} ELSE @,
                               ![p].failed = IF task[p].mok THEN @ ELSE @ \cup {sid}]
    /\ task' = [task EXCEPT ![p].pc = "loop1"]
    /\ running' = p
    /\ UNCHANGED <<chat, unit, store, _clients, _lock, waiters, obj, leaked, last, call, agg>>

\* lines 109-111: add_client's verdict is only logged.
ensure_added(p) ==
    /\ AtPc(p, "added")
    /\ LET sid == Head(pass[p].todo)
       IN pass' = [pass EXCEPT ![p].todo = Tail(@),
                               ![p].ok = IF task[p].mok THEN @ \cup {sid} ELSE @,
                               ![p].failed = IF task[p].mok THEN @ ELSE @ \cup {sid},
                               ![p].connfail =
                                   IF ~task[p].mok /\ _clients[sid] = None
                                   THEN @ \cup {sid} ELSE @]
    /\ task' = [task EXCEPT ![p].pc = "loop1"]
    /\ running' = p
    /\ UNCHANGED <<chat, unit, store, _clients, _lock, waiters, obj, leaked, last, call, agg>>

\* lines 113-115, had only ids of rows that no longer exist counted as stale.
ensure_listed_deleted_only(p) ==
    /\ AtPc(p, "listed")
    /\ pass' = [pass EXCEPT
          ![p].stale = {s \in task[p].mlist : ~store[s].exists},
          ![p].found_stale = task[p].mlist \ pass[p].enabled]
    /\ task' = [task EXCEPT ![p].pc = "loop2", ![p].mlist = {}]
    /\ running' = p
    /\ UNCHANGED <<chat, unit, store, _clients, _lock, waiters, obj, leaked, last, call, agg>>

\* lines 113-115: the registered ids that are not enabled for this user.
ensure_listed(p) ==
    /\ AtPc(p, "listed")
    /\ pass' = [pass EXCEPT ![p].stale = task[p].mlist \ pass[p].enabled,
                            ![p].found_stale = task[p].mlist \ pass[p].enabled]
    /\ task' = [task EXCEPT ![p].pc = "loop2", ![p].mlist = {}]
    /\ running' = p
    /\ UNCHANGED <<chat, unit, store, _clients, _lock, waiters, obj, leaked, last, call, agg>>

\* lines 117-120: each of them is removed (a set is iterated in no fixed order).
ensure_loop2(p) ==
    /\ AtPc(p, "loop2")
    /\ pass[p].stale # {}
    /\ \E sid \in pass[p].stale :
          /\ pass' = [pass EXCEPT ![p].stale = @ \ {sid}]
          /\ task' = Call(p, "rm_acq", sid, None, "loop2")
    /\ running' = p
    /\ UNCHANGED <<chat, unit, store, _clients, _lock, waiters, obj, leaked, last, call, agg>>

\* line 120, loop exhausted: the pass is over.
ensure_end(p) ==
    /\ AtPc(p, "loop2")
    /\ pass[p].stale = {}
    /\ task' = [task EXCEPT ![p].pc = "done"]
    /\ running' = p
    /\ UNCHANGED <<chat, unit, store, _clients, _lock, waiters, obj, pass, leaked, last, call, agg>>

\* The coroutine returns to its caller.
ensure_return(p) ==
    /\ AtPc(p, "done")
    /\ last' = IF \A t \in Tasks \ {p} : task[t].pc = "idle"
               THEN pass[p].owner ELSE 0
    /\ pass' = [PeerLeaves(pass, p) EXCEPT ![p] = IdlePass]
    /\ Commit(obj, _clients, [task EXCEPT ![p] = IdleFrame])
    /\ running' = "none"
    /\ UNCHANGED <<chat, unit, store, _lock, waiters, call, agg>>

\* ------------------------------------------------------------ failures
\* What ClientSession.call_tool / read_resource can raise.  `kind` is what
\* happened; the code sees only the class and the text of str(e).
NoExc == [cls |-> "", kind |-> "", text |-> <<>>]
Excs ==
    { \* the write stream is closed: anyio raises the bare class
      [cls |-> "ClosedResourceError", kind |-> "closed", text |-> <<>>],
      \* the pipe to the child broke
      [cls |-> "BrokenResourceError", kind |-> "broken_pipe", text |-> <<>>],
      \* the child exited: the pending request is answered with this error
      [cls |-> "McpError", kind |-> "process_exited",
       text |-> <<"Connection", "closed">>],
      \* the provider answers a well-formed call with an error
      [cls |-> "McpError", kind |-> "semantic", text |-> <<"Unknown", "tool">>],
      [cls |-> "McpError", kind |-> "semantic",
       text |-> <<"Pit", "lane", "closed">>] }
Replies == {NoExc} \cup Excs

ToolName == "ping"

\* str.lower(), word by word.
Lower(w) ==
    CASE w = "Connection" -> "connection"
      [] w = "Unknown" -> "unknown"
      [] w = "Pit" -> "pit"
      [] w = "Failed" -> "failed"
      [] w = "Server" -> "server"
      [] OTHER -> w
LowerAll(text) == [i \in 1..Len(text) |-> Lower(text[i])]

\* client.py line 234: f"Failed to call tool '{tool_name}' on {self.name}: {str(e)}"
RuntimeErrorText(tool, name, e) ==
    <<"Failed", "to", "call", "tool", tool, "on", name>> \o e.text

\* manager.py lines 136-137:
\*   "closed" in error_str or "not connected" in error_str
LooksClosed(text) ==
    LET error_str == LowerAll(text)
    IN \/ \E i \in 1..Len(error_str) : error_str[i] = "closed"
       \/ \E i \in 1..(Len(error_str) - 1) :
             error_str[i] = "not" /\ error_str[i + 1] = "connected"

\* client.py line 208:
\*   RuntimeError(f"Cannot call tool '{tool_name}': not connected to {self.name}")
NotConnectedError(o) ==
    [cls |-> "RuntimeError", kind |-> "not_connected",
     text |-> <<"Cannot", "call", "tool", ToolName, "not", "connected", "to",
                NameOf(o.server_id)>>]

\* client.py lines 229-231 and 260-262: only this class takes the flag down.
mark_closed(o, e) ==
    IF e.cls = "ClosedResourceError"
    THEN [o EXCEPT !.connected = FALSE, !.session = FALSE]
    ELSE o

\* ------------------------------------------------------------ call_tool
NoResult == [kind |-> "pending", err |-> NoExc, attempt |-> 0]

IdleCall ==
    [op |-> "", sid |-> 0, user |-> 0, first |-> NoExc, second |-> NoExc,
     ncalls |-> 0, result |-> NoResult, solo |-> FALSE,
     before |-> [s \in ServerIds |-> Unallocated]]

\* A request starts: whatever pass ran before is no longer the last thing.
Interfere ==
    /\ last' = 0
    /\ pass' = NotInARow(pass)

Alone(t) == \A u \in Tasks \ {t} : task[u].pc = "idle"

\* MCPManager.call_tool line 126 / get_resource line 152
request_start(t, op, sid) ==
    /\ running = "none"
    /\ task[t].pc = "idle"
    /\ call' = [call EXCEPT ![t] =
                 [IdleCall EXCEPT !.op = op, !.sid = sid, !.solo = Alone(t),
                                  !.before = IF Alone(t) THEN Registered
                                             ELSE IdleCall.before]]
    /\ task' = [task EXCEPT ![t] =
                 [IdleFrame EXCEPT !.pc = "got", !.mop = "get_acq", !.marg = sid]]
    /\ running' = t
    /\ Interfere
    /\ UNCHANGED <<chat, unit, store, _clients, _lock, waiters, obj, agg, leaked>>

\* The guard of the provider call, had only `if not client` been tested.
UsableIfPresent(c) == c # None

\* The check that guards the provider call:
\*   `if not client`, then `if not client.is_connected` (manager.py 127-131).
Usable(c) == c # None /\ is_connected(obj[c])

\* manager.py lines 127-134 and client.py lines 207-211: a missing or
\* disconnected client raises ValueError; else the request goes out.
call_tool_got(t) ==
    /\ AtPc(t, "got")
    /\ call[t].op = "call_tool"
    /\ LET c == task[t].mret
       IN IF c = None
          THEN /\ call' = [call EXCEPT ![t].result =
                            [NoResult EXCEPT !.kind = "ValueError: not found"]]
               /\ Commit(obj, _clients, [task EXCEPT ![t].pc = "done",
                                                     ![t].mret = None])
               /\ running' = t
          ELSE IF ~Usable(c)
          THEN /\ call' = [call EXCEPT ![t].result =
                            [NoResult EXCEPT !.kind = "ValueError: not connected"]]
               /\ Commit(obj, _clients, [task EXCEPT ![t].pc = "done",
                                                     ![t].mret = None])
               /\ running' = t
          ELSE IF ~(obj[c].session /\ obj[c].connected)
          THEN \* client.py 207-208 raises; manager.py 135-141 reads its text
               LET e == NotConnectedError(obj[c])
               IN /\ call' = [call EXCEPT ![t].first = e,
                                ![t].result =
                                    IF LooksClosed(e.text) THEN NoResult
                                    ELSE [NoResult EXCEPT !.kind = "error",
                                                          !.err = e]]
                  /\ Commit(obj, _clients,
                        [task EXCEPT
                            ![t].pc = IF ~LooksClosed(e.text) THEN "done"
                                      ELSE IF obj[c].connected THEN "disc"
                                      ELSE "conn",
                            ![t].client = c, ![t].mret = None,
                            ![t].ndisconnect =
                                IF LooksClosed(e.text) THEN @ + 1 ELSE @,
                            ![t].nconnect =
                                IF LooksClosed(e.text) /\ ~obj[c].connected
                                THEN @ + 1 ELSE @])
                  /\ running' = IF LooksClosed(e.text) THEN "none" ELSE t
          ELSE /\ call' = [call EXCEPT ![t].ncalls = @ + 1]
               /\ Commit(obj, _clients,
                         [task EXCEPT ![t].pc = "call1", ![t].client = c,
                                      ![t].mret = None])
               /\ running' = "none"
    /\ UNCHANGED <<chat, unit, store, _lock, waiters, pass, agg, last>>

\* client.py 228-234 and manager.py 135-148: the first attempt is answered.
\* An error whose text looks like a lost connection starts disconnect() and
\* connect(); any other error is raised to the caller.
call_tool_reply1(t, e) ==
    /\ running = "none"
    /\ task[t].pc = "call1"
    /\ call[t].op = "call_tool"
    /\ LET c == task[t].client
           marked == mark_closed(obj[c], e)
           msg == RuntimeErrorText(ToolName, NameOf(obj[c].server_id), e)
       IN IF e = NoExc
          THEN /\ call' = [call EXCEPT ![t].result =
                            [NoResult EXCEPT !.kind = "ok", !.attempt = 1]]
               /\ task' = [task EXCEPT ![t].pc = "done"]
               /\ running' = t
               /\ obj' = obj
          ELSE IF ~LooksClosed(msg)
          THEN /\ call' = [call EXCEPT ![t].first = e,
                            ![t].result = [NoResult EXCEPT !.kind = "error",
                                                           !.err = e,
                                                           !.attempt = 1]]
               /\ task' = [task EXCEPT ![t].pc = "done"]
               /\ running' = t
               /\ obj' = [obj EXCEPT ![c] = marked]
          ELSE /\ call' = [call EXCEPT ![t].first = e]
               /\ obj' = [obj EXCEPT ![c] = marked]
               /\ running' = "none"
               /\ IF marked.connected
                  THEN task' = [task EXCEPT ![t].pc = "disc",
                                            ![t].ndisconnect = @ + 1]
                  ELSE task' = [task EXCEPT ![t].pc = "conn",
                                            ![t].ndisconnect = @ + 1,
                                            ![t].nconnect = @ + 1]
    /\ UNCHANGED <<chat, unit, store, _clients, _lock, waiters, pass, agg, leaked, last>>

\* manager.py 140-141: disconnect() has closed the transport; connect() begins.
call_tool_disconnected(t) ==
    /\ running = "none"
    /\ task[t].pc = "disc"
    /\ obj' = [obj EXCEPT ![task[t].client] = disconnect_body(@)]
    /\ task' = [task EXCEPT ![t].pc = "conn", ![t].nconnect = @ + 1]
    /\ running' = "none"
    /\ UNCHANGED <<chat, unit, store, _clients, _lock, waiters, pass, call, agg, leaked, last>>

\* manager.py 141-143: connect() returns; on success the call is sent again,
\* else the first error is raised.
call_tool_connected(t, ok) ==
    /\ running = "none"
    /\ task[t].pc = "conn"
    /\ LET c == task[t].client
       IN IF ok
          THEN /\ obj' = [obj EXCEPT ![c] = connect_ok(@)]
               /\ call' = [call EXCEPT ![t].ncalls = @ + 1]
               /\ task' = [task EXCEPT ![t].pc = "call2"]
               /\ running' = "none"
          ELSE /\ obj' = [obj EXCEPT ![c] = connect_failed(@)]
               /\ call' = [call EXCEPT ![t].result =
                            [NoResult EXCEPT !.kind = "error",
                                             !.err = call[t].first,
                                             !.attempt = 1]]
               /\ task' = [task EXCEPT ![t].pc = "done"]
               /\ running' = t
    /\ UNCHANGED <<chat, unit, store, _clients, _lock, waiters, pass, agg, leaked, last>>

\* manager.py 143-148: the second attempt is answered; its result is
\* returned, its error is logged and the first error is raised.
call_tool_reply2(t, e) ==
    /\ running = "none"
    /\ task[t].pc = "call2"
    /\ LET c == task[t].client
       IN /\ obj' = [obj EXCEPT ![c] = mark_closed(@, e)]
          /\ call' = [call EXCEPT
                ![t].second = e,
                ![t].result =
                    IF e = NoExc
                    THEN [NoResult EXCEPT !.kind = "ok", !.attempt = 2]
                    ELSE [NoResult EXCEPT !.kind = "error",
                                          !.err = call[t].first,
                                          !.attempt = 1]]
    /\ task' = [task EXCEPT ![t].pc = "done"]
    /\ running' = t
    /\ UNCHANGED <<chat, unit, store, _clients, _lock, waiters, pass, agg, leaked, last>>

\* ------------------------------------------------------------ get_resource
\* manager.py 153-156 and client.py 238-242: a missing or disconnected
\* client yields None; else the read goes out.
get_resource_got(t) ==
    /\ AtPc(t, "got")
    /\ call[t].op = "get_resource"
    /\ LET c == task[t].mret
       IN IF ~Usable(c)
          THEN /\ call' = [call EXCEPT ![t].result =
                            [NoResult EXCEPT !.kind = "None"]]
               /\ Commit(obj, _clients, [task EXCEPT ![t].pc = "done",
                                                     ![t].mret = None])
               /\ running' = t
          ELSE /\ call' = [call EXCEPT ![t].ncalls = @ + 1]
               /\ Commit(obj, _clients,
                         [task EXCEPT ![t].pc = "call1", ![t].client = c,
                                      ![t].mret = None])
               /\ running' = "none"
    /\ UNCHANGED <<chat, unit, store, _lock, waiters, pass, agg, last>>

\* client.py 242-265: the text is returned; every exception is logged and
\* None is returned.
get_resource_reply(t, e) ==
    /\ running = "none"
    /\ task[t].pc = "call1"
    /\ call[t].op = "get_resource"
    /\ LET c == task[t].client
       IN /\ obj' = [obj EXCEPT ![c] = mark_closed(@, e)]
          /\ call' = [call EXCEPT
                ![t].first = e,
                ![t].result =
                    IF e = NoExc
                    THEN [NoResult EXCEPT !.kind = "ok", !.attempt = 1]
                    ELSE [NoResult EXCEPT !.kind = "None", !.attempt = 1]]
    /\ task' = [task EXCEPT ![t].pc = "done"]
    /\ running' = t
    /\ UNCHANGED <<chat, unit, store, _clients, _lock, waiters, pass, agg, leaked, last>>

\* The result reaches the caller of call_tool / get_resource.
request_return(t) ==
    /\ AtPc(t, "done")
    /\ call' = [call EXCEPT ![t] = IdleCall]
    /\ Commit(obj, _clients, [task EXCEPT ![t] = IdleFrame])
    /\ running' = "none"
    /\ UNCHANGED <<chat, unit, store, _lock, waiters, pass, agg, last>>

\* ------------------------------------------------------------ aggregate view
IdleAgg == [kind |-> "", todo |-> {}, cur |-> 0, out |-> {}, solo |-> FALSE]

\* The cache get_all_tools / get_all_resources reads and fills.
CacheOf(o, kind) == IF kind = "tools" THEN o.tools_cache ELSE o.resources_cache
WithCache(o, kind, cache) ==
    IF kind = "tools" THEN [o EXCEPT !.tools_cache = cache]
    ELSE [o EXCEPT !.resources_cache = cache]
Provided(sid, kind) ==
    IF kind = "tools" THEN ProviderTools(sid) ELSE ProviderResources(sid)

\* manager.py 96-98 / 115-117: the two keys are written into the cached
\* dicts themselves.
TagAll(items, o) == {Tagged(e, o) : e \in items}

\* The loop of get_all_tools, had no client been skipped.
SkippedNever(o) == FALSE

\* manager.py 91 / 110: a client that is not connected is skipped.
Skipped(o) == ~is_connected(o)

\* MCPManager.get_all_tools / get_all_resources is called.
agg_start(g, kind) ==
    /\ running = "none"
    /\ task[g].pc = "idle"
    /\ agg' = [agg EXCEPT ![g] = [IdleAgg EXCEPT !.kind = kind, !.solo = Alone(g)]]
    /\ task' = [task EXCEPT ![g] =
                 [IdleFrame EXCEPT !.pc = "agg", !.mop = "agg_acq"]]
    /\ running' = g
    /\ Interfere
    /\ UNCHANGED <<chat, unit, store, _clients, _lock, waiters, obj, call, leaked>>

\* manager.py 89 / 108: the lock is taken for the whole loop.
agg_enter(g) ==
    /\ CanRun(g)
    /\ task[g].mop = "agg_acq"
    /\ LockAvailable(g)
    /\ Hold(g)
    /\ agg' = [agg EXCEPT ![g].todo = {s \in ServerIds : _clients[s] # None}]
    /\ task' = [task EXCEPT ![g].mop = "agg_loop"]
    /\ running' = g
    /\ UNCHANGED <<chat, unit, store, _clients, obj, pass, call, leaked, last>>

\* manager.py 90-99 / 109-118 with client.py 128-132 / 174-178: one client of
\* the loop.  A cached list is returned at once; else the provider is asked.
agg_visit(g) ==
    /\ CanRun(g)
    /\ task[g].mop = "agg_loop"
    /\ \E sid \in agg[g].todo :
          LET c == _clients[sid]
              o == obj[c]
              cache == CacheOf(o, agg[g].kind)
          IN IF Skipped(o)
             THEN /\ agg' = [agg EXCEPT ![g].todo = @ \ {sid}]
                  /\ obj' = obj
                  /\ running' = g
                  /\ task' = task
             ELSE IF cache.some
             THEN /\ agg' = [agg EXCEPT ![g].todo = @ \ {sid},
                                        ![g].out = @ \cup TagAll(cache.items, o)]
                  /\ obj' = [obj EXCEPT ![c] =
                               WithCache(o, agg[g].kind,
                                   [cache EXCEPT !.items = TagAll(@, o)])]
                  /\ running' = g
                  /\ task' = task
             ELSE IF ~o.session \/ ~o.connected
             THEN /\ agg' = [agg EXCEPT ![g].todo = @ \ {sid}]
                  /\ obj' = obj
                  /\ running' = g
                  /\ task' = task
             ELSE /\ agg' = [agg EXCEPT ![g].cur = sid]
                  /\ obj' = obj
                  /\ running' = "none"
                  /\ task' = [task EXCEPT ![g].mop = "agg_fetch"]
    /\ UNCHANGED <<chat, unit, store, _clients, _lock, waiters, pass, call, leaked, last>>

\* client.py 135-170 / 181-203 and manager.py 96-101: the provider answers.
\* The list becomes the cache and is tagged; an error yields the empty list.
agg_fetched(g, ok) ==
    /\ running = "none"
    /\ task[g].mop = "agg_fetch"
    /\ LET sid == agg[g].cur
           c == _clients[sid]
           o == obj[c]
           items == TagAll({Entry(n) : n \in Provided(sid, agg[g].kind)}, o)
       IN IF ok
          THEN /\ obj' = [obj EXCEPT ![c] =
                            WithCache(o, agg[g].kind,
                                      [some |-> TRUE, items |-> items])]
               /\ agg' = [agg EXCEPT ![g].todo = @ \ {sid}, ![g].cur = 0,
                                     ![g].out = @ \cup items]
          ELSE /\ obj' = obj
               /\ agg' = [agg EXCEPT ![g].todo = @ \ {sid}, ![g].cur = 0]
    /\ task' = [task EXCEPT ![g].mop = "agg_loop"]
    /\ running' = g
    /\ UNCHANGED <<chat, unit, store, _clients, _lock, waiters, pass, call, leaked, last>>

\* manager.py 103 / 122: the loop is over, the lock is released.
agg_end(g) ==
    /\ CanRun(g)
    /\ task[g].mop = "agg_loop"
    /\ agg[g].todo = {}
    /\ Release
    /\ task' = [task EXCEPT ![g].mop = "none", ![g].pc = "done"]
    /\ running' = g
    /\ UNCHANGED <<chat, unit, store, _clients, obj, pass, call, agg, leaked, last>>

\* The list reaches the caller.
agg_return(g) ==
    /\ AtPc(g, "done")
    /\ agg' = [agg EXCEPT ![g] = IdleAgg]
    /\ task' = [task EXCEPT ![g] = IdleFrame]
    /\ running' = "none"
    /\ UNCHANGED <<chat, unit, store, _clients, _lock, waiters, obj, pass, call, leaked, last>>

\* ------------------------------------------------------------ delete_server
\* mcp_routes.py lines 243-246: the session of the id is removed first,
\* whoever asks.
delete_server_start(t, sid, user) ==
    /\ running = "none"
    /\ task[t].pc = "idle"
    /\ call' = [call EXCEPT ![t] =
                 [IdleCall EXCEPT !.op = "delete_server", !.sid = sid,
                                  !.user = user]]
    /\ task' = [task EXCEPT ![t] =
                 [IdleFrame EXCEPT !.pc = "deleted", !.mop = "rm_acq",
                                   !.marg = sid]]
    /\ running' = t
    /\ Interfere
    /\ UNCHANGED <<chat, unit, store, _clients, _lock, waiters, obj, agg, leaked>>

\* core/mcp_servers.py, delete_mcp_server: DELETE ... WHERE id = ? AND
\* user_id = ?, so only the owner's request deletes the row.
delete_mcp_server(id, user) ==
    [store EXCEPT ![id].exists = @ /\ OwnerOf(id) # user]

\* mcp_routes.py lines 248-250: the row is deleted, or 404 is raised.
delete_server_deleted(t) ==
    /\ AtPc(t, "deleted")
    /\ store' = delete_mcp_server(call[t].sid, call[t].user)
    /\ call' = [call EXCEPT ![t].result =
                 [NoResult EXCEPT !.kind =
                     IF store[call[t].sid].exists
                        /\ OwnerOf(call[t].sid) = call[t].user
                     THEN "ok" ELSE "404"]]
    /\ task' = [task EXCEPT ![t].pc = "done"]
    /\ running' = t
    /\ UNCHANGED <<chat, unit, _clients, _lock, waiters, obj, pass, agg, leaked, last>>

\* ------------------------------------------------------------ config store
\* update_mcp_server(enabled=...): the owner enables or disables a row.
update_mcp_server(id, en) ==
    /\ running = "none"
    /\ store[id].exists
    /\ store[id].enabled # en
    /\ store' = [store EXCEPT ![id].enabled = en]
    /\ last' = 0
    /\ pass' = NotInARow(pass)
    /\ UNCHANGED <<chat, unit, _clients, _lock, waiters, obj, task, running, leaked, call, agg>>

\* ------------------------------------------------------------ one session
\* One MCPClient object and a caller that invokes its public methods one
\* after the other, each call running to its return.
MaxStack == 2

\* Where _connect_stdio raises: entering stdio_client (the child process is
\* not started), entering ClientSession, initialize(); "none": nowhere.
ConnectSteps == {"spawn", "session", "initialize", "none"}

\* client.py line 67: command=self.command or "python"
StdioCommand(command) == IF command = "" THEN "python" ELSE command

\* _connect_stdio, lines 65-80, up to the statement that raises: the
\* transport is on the exit stack once stdio_client is entered, _session is
\* assigned once ClientSession is entered.
opened_until(o, step) ==
    CASE step = "spawn"   -> o
      [] step = "session" -> [o EXCEPT !.stack = @ + 1]
      [] OTHER            -> [o EXCEPT !.stack = @ + 1, !.session = TRUE]

\* MCPClient.connect: the object after the call, the value returned and the
\* command of the child process the call started ("": none).
connect(o, command, step) ==
    IF o.server_type # "stdio"
    THEN [o |-> o, ret |-> "False", spawned |-> ""]
    ELSE IF step = "none"
    THEN [o |-> connect_ok(o), ret |-> "True",
          spawned |-> StdioCommand(command)]
    ELSE [o |-> connect_failed(opened_until(o, step)), ret |-> "False",
          spawned |-> IF step = "spawn" THEN "" ELSE StdioCommand(command)]

\* MCPClient.disconnect: `if not self._connected: return`, else the body.
disconnect(o) == IF ~o.connected THEN o ELSE disconnect_body(o)

\* MCPClient.list_tools / list_resources: the cache if there is one, else
\* [] without a live session, else the provider's answer, which becomes the
\* cache; [] when asking fails.
list_cached(o, kind, ok) ==
    LET cache == CacheOf(o, kind)
        fetched == {Entry(n) : n \in Provided(o.server_id, kind)}
    IN IF cache.some THEN [o |-> o, out |-> cache.items]
       ELSE IF ~o.session \/ ~o.connected THEN [o |-> o, out |-> {}]
       ELSE IF ok
       THEN [o |-> WithCache(o, kind, [some |-> TRUE, items |-> fetched]),
             out |-> fetched]
       ELSE [o |-> o, out |-> {}]

\* MCPClient.call_tool: RuntimeError without a live session; else the text,
\* or RuntimeError wrapping the exception of the request.
client_call_tool(o, e) ==
    IF ~o.session \/ ~o.connected THEN [o |-> o, ret |-> "raised"]
    ELSE IF e = NoExc THEN [o |-> o, ret |-> "value"]
    ELSE [o |-> mark_closed(o, e), ret |-> "raised"]

\* MCPClient.get_resource: None without a live session and on every
\* exception; else the text.
client_get_resource(o, e) ==
    IF ~o.session \/ ~o.connected THEN [o |-> o, ret |-> "None"]
    ELSE IF e = NoExc THEN [o |-> o, ret |-> "value"]
    ELSE [o |-> mark_closed(o, e), ret |-> "None"]

IdleUnit ==
    [command |-> "", o |-> Unallocated, op |-> "", before |-> Unallocated,
     ret |-> "", out |-> {}, spawned |-> "", step |-> ""]

\* MCPClient(server_id=1, server_type=..., command=...)
FreshUnit(server_type, command) ==
    [IdleUnit EXCEPT !.command = command,
                     !.o = [NewClient(1) EXCEPT !.server_type = server_type]]

Returned(op, r) ==
    [unit EXCEPT !.op = op, !.before = unit.o, !.o = r.o, !.ret = r.ret,
                 !.out = {}, !.spawned = "", !.step = ""]

unit_connect(step) ==
    /\ unit.o.alloc
    /\ unit.o.stack < MaxStack
    /\ LET r == connect(unit.o, unit.command, step)
       IN unit' = [Returned("connect", r) EXCEPT !.spawned = r.spawned,
                                                 !.step = step]
    /\ UNCHANGED <<chat, store, _clients, _lock, waiters, obj, task, pass, call, agg,
                   running, leaked, last>>

\* close_raises: closing the exit stack raised, which _cleanup_resources
\* swallows.
unit_disconnect(close_raises) ==
    /\ unit.o.alloc
    /\ unit' = [Returned("disconnect", [o |-> disconnect(unit.o), ret |-> "None"])
                   EXCEPT !.step = IF close_raises THEN "close_raised" ELSE ""]
    /\ UNCHANGED <<chat, store, _clients, _lock, waiters, obj, task, pass, call, agg,
                   running, leaked, last>>

unit_list(kind, ok) ==
    /\ unit.o.alloc
    /\ LET r == list_cached(unit.o, kind, ok)
       IN unit' = [Returned(IF kind = "tools" THEN "list_tools"
                            ELSE "list_resources",
                            [o |-> r.o, ret |-> "list"])
                      EXCEPT !.out = r.out]
    /\ UNCHANGED <<chat, store, _clients, _lock, waiters, obj, task, pass, call, agg,
                   running, leaked, last>>

unit_call_tool(e) ==
    /\ unit.o.alloc
    /\ unit' = Returned("call_tool", client_call_tool(unit.o, e))
    /\ UNCHANGED <<chat, store, _clients, _lock, waiters, obj, task, pass, call, agg,
                   running, leaked, last>>

unit_get_resource(e) ==
    /\ unit.o.alloc
    /\ unit' = Returned("get_resource", client_get_resource(unit.o, e))
    /\ UNCHANGED <<chat, store, _clients, _lock, waiters, obj, task, pass, call, agg,
                   running, leaked, last>>

\* ------------------------------------------------------------ chat requests
\* The agent side keeps one process-wide MultiServerMCPClient
\* (langchain_adapter._global_mcp_client).  A client is known by the user
\* whose rows it was built from and by those rows.
Chatters == {"r1", "r2"}

NoClient == [by |-> 0, servers |-> {}]
IdleChatFrame == [pc |-> "idle", user |-> 0, read |-> {}, client |-> NoClient,
                  tools |-> {}, agent |-> NoClient]
IdleChat == [global |-> NoClient, req |-> [r \in Chatters |-> IdleChatFrame]]

\* create_mcp_client_from_config: a client over the rows it is given.
create_mcp_client_from_config(user, servers) == [by |-> user, servers |-> servers]

\* main.py, generate_sse_stream: a chat request of `user` begins.
chat_start(r, user) ==
    /\ running = "none"
    /\ chat.req[r].pc = "idle"
    /\ chat' = [chat EXCEPT !.req[r] = [IdleChatFrame EXCEPT !.pc = "load",
                                                            !.user = user]]
    /\ running' = r
    /\ UNCHANGED <<unit, store, _clients, _lock, waiters, obj, task, pass, call,
                   agg, leaked, last>>

\* load_user_mcp_servers, had building the client suspended the coroutine.
chat_load_suspending(r) ==
    /\ CanRun(r)
    /\ chat.req[r].pc = "load"
    /\ LET servers == list_mcp_servers(chat.req[r].user)
       IN chat' = [chat EXCEPT
             !.global = create_mcp_client_from_config(chat.req[r].user, servers),
             !.req[r].read = servers,
             !.req[r].pc = "fetch"]
    /\ running' = "none"
    /\ UNCHANGED <<unit, store, _clients, _lock, waiters, obj, task, pass, call,
                   agg, leaked, last>>

\* loader.py 13-44: the user's enabled rows are read, a client is built
\* from them and set_global_mcp_client stores it.  Nothing awaited here
\* suspends (create_mcp_client_from_config has no await of its own), so the
\* coroutine keeps the event loop.
chat_load(r) ==
    /\ CanRun(r)
    /\ chat.req[r].pc = "load"
    /\ LET servers == list_mcp_servers(chat.req[r].user)
       IN chat' = [chat EXCEPT
             !.global = create_mcp_client_from_config(chat.req[r].user, servers),
             !.req[r].read = servers,
             !.req[r].pc = "fetch"]
    /\ running' = r
    /\ UNCHANGED <<unit, store, _clients, _lock, waiters, obj, task, pass, call,
                   agg, leaked, last>>

\* analytics_agent.py 80-110 and get_mcp_tools_from_client 110-120: the
\* tool fetch reads the global client, then suspends in client.get_tools().
chat_fetch(r) ==
    /\ CanRun(r)
    /\ chat.req[r].pc = "fetch"
    /\ chat' = [chat EXCEPT !.req[r].client = chat.global,
                            !.req[r].pc = "tools"]
    /\ running' = "none"
    /\ UNCHANGED <<unit, store, _clients, _lock, waiters, obj, task, pass, call,
                   agg, leaked, last>>

\* get_mcp_tools_from_client 120-132 and analytics_agent.py 110-135:
\* get_tools() answers with the tools of the client's servers, or raises and
\* [] is used; the agent is created with them and its run (agent.astream)
\* suspends on the model's answers.
chat_tools(r, ok) ==
    /\ running = "none"
    /\ chat.req[r].pc = "tools"
    /\ chat' = [chat EXCEPT
          !.req[r].tools =
              IF ok THEN UNION {ProviderTools(id) : id \in chat.req[r].client.servers}
              ELSE {},
          !.req[r].agent = chat.req[r].client,
          !.req[r].pc = "run"]
    /\ running' = "none"
    /\ UNCHANGED <<unit, store, _clients, _lock, waiters, obj, task, pass, call,
                   agg, leaked, last>>

\* The agent run ends and the response is complete.
chat_return(r) ==
    /\ running = "none"
    /\ chat.req[r].pc = "run"
    /\ chat' = [chat EXCEPT !.req[r] = IdleChatFrame]
    /\ running' = "none"
    /\ UNCHANGED <<unit, store, _clients, _lock, waiters, obj, task, pass, call,
                   agg, leaked, last>>

\* ------------------------------------------------------------ specification
InitRest ==
    /\ _clients = EmptyRegistry
    /\ _lock = "none"
    /\ waiters = <<>>
    /\ obj = EmptyHeap
    /\ task = [t \in Tasks |-> IdleFrame]
    /\ pass = [p \in Passes |-> IdlePass]
    /\ call = [c \in Callers |-> IdleCall]
    /\ agg = [g \in Aggs |-> IdleAgg]
    /\ running = "none"
    /\ leaked = {}
    /\ last = 0
    /\ unit = IdleUnit
    /\ chat = IdleChat

Rows == [exists : {TRUE}, user_id : Users, enabled : BOOLEAN,
         server_type : {"stdio"}]

\* The process starts with an empty registry.  The table holds a row per
\* server id, enabled or not; the first row is user 1's.
Init ==
    /\ store \in [ServerIds -> Rows]
    /\ store[1].user_id = 1
    /\ InitRest

Quiescent == \A t \in Tasks : task[t].pc = "idle"

Manager(t) ==
    \/ get_client(t)
    \/ list_clients(t)
    \/ add_client_enter(t)
    \/ \E outcome \in ConnectOutcomes : add_client_finish(t, outcome)
    \/ remove_client_enter(t)
    \/ remove_client_finish(t)

Ensure(p) ==
    \/ ensure_loop1(p)
    \/ ensure_got(p)
    \/ ensure_create(p)
    \/ ensure_added(p)
    \/ ensure_listed(p)
    \/ ensure_loop2(p)
    \/ ensure_end(p)
    \/ ensure_return(p)

Request(t) ==
    \/ call_tool_got(t)
    \/ \E e \in Replies : call_tool_reply1(t, e)
    \/ call_tool_disconnected(t)
    \/ \E ok \in BOOLEAN : call_tool_connected(t, ok)
    \/ \E e \in Replies : call_tool_reply2(t, e)
    \/ get_resource_got(t)
    \/ \E e \in Replies : get_resource_reply(t, e)
    \/ request_return(t)

Aggregate(g) ==
    \/ agg_enter(g)
    \/ agg_visit(g)
    \/ \E ok \in BOOLEAN : agg_fetched(g, ok)
    \/ agg_end(g)
    \/ agg_return(g)

Config == \E id \in ServerIds, en \in BOOLEAN : update_mcp_server(id, en)

\* Requests arrive at any time and their coroutines interleave.
Next ==
    \/ \E t \in Tasks : Manager(t) \/ LockBlock(t)
    \/ \E p \in Passes : Ensure(p)
    \/ \E u \in Users : ensure_start("p1", u)
    \/ \E u \in Users : task["p1"].pc # "idle" /\ ensure_start("p2", u)
    \/ Config

Spec == Init /\ [][Next]_vars

\* The event loop resumes every coroutine that is ready to run.  The
\* provider's answer to the handshake (add_client_finish) is the provider's
\* to give: nothing in connect() or add_client() bounds the wait for it.
Resume(t) ==
    \/ get_client(t)
    \/ list_clients(t)
    \/ add_client_enter(t)
    \/ remove_client_enter(t)
    \/ remove_client_finish(t)
    \/ LockBlock(t)

Fairness ==
    /\ \A t \in Tasks : WF_vars(Resume(t))
    /\ \A p \in Passes : WF_vars(Ensure(p))

SpecLive == Init /\ [][Next]_vars /\ Fairness

\* One request at a time: the next begins when the previous has returned.
NextSeq ==
    \/ \E t \in Tasks : Manager(t)
    \/ \E p \in Passes : Ensure(p)
    \/ \E u \in Users : Quiescent /\ ensure_start("p1", u)
    \/ \E t \in Callers : Request(t)
    \/ \E t \in Callers, sid \in ServerIds, op \in {"call_tool", "get_resource"} :
          Quiescent /\ request_start(t, op, sid)
    \/ \E t \in Callers, sid \in ServerIds, u \in Users :
          Quiescent /\ delete_server_start(t, sid, u)
    \/ \E t \in Callers : delete_server_deleted(t)
    \/ Quiescent /\ Config

SpecSeq == Init /\ [][NextSeq]_vars

\* One request at a time, among them the aggregate queries; user 1 owns
\* every row.
InitAgg ==
    /\ store = [id \in ServerIds |->
                  [exists |-> TRUE, user_id |-> 1, enabled |-> TRUE,
                   server_type |-> "stdio"]]
    /\ InitRest

NextAgg ==
    \/ \E t \in Tasks : Manager(t)
    \/ \E p \in Passes : Ensure(p)
    \/ Quiescent /\ ensure_start("p1", 1)
    \/ \E t \in Callers : Request(t)
    \/ \E t \in Callers, sid \in ServerIds, op \in {"call_tool", "get_resource"} :
          Quiescent /\ request_start(t, op, sid)
    \/ \E g \in Aggs : Aggregate(g)
    \/ \E g \in Aggs, kind \in {"tools", "resources"} :
          Quiescent /\ agg_start(g, kind)
    \/ Quiescent /\ Config

SpecAgg == InitAgg /\ [][NextAgg]_vars

\* Requests one at a time, except that a second reconcile pass of the same
\* owner may begin while one is in flight (two requests of one user, each
\* handler opening with ensure_user_servers_connected(user_id)).
ensure_start_beside(p, q) ==
    /\ task[q].pc # "idle"
    /\ \A t \in Callers : task[t].pc = "idle"
    /\ ensure_start(p, pass[q].owner)

NextPair ==
    \/ \E t \in Tasks : Manager(t) \/ LockBlock(t)
    \/ \E p \in Passes : Ensure(p)
    \/ \E u \in Users : Quiescent /\ ensure_start("p1", u)
    \/ \E p, q \in Passes : p # q /\ ensure_start_beside(p, q)
    \/ \E t \in Callers : Request(t)
    \/ \E t \in Callers, sid \in ServerIds, op \in {"call_tool", "get_resource"} :
          Quiescent /\ request_start(t, op, sid)
    \/ Quiescent /\ Config

SpecPair == Init /\ [][NextPair]_vars

\* A reconcile pass and a tool or resource request arrive at any time and
\* their coroutines interleave at every await; user 1 owns every row.
NextRace ==
    \/ \E t \in Tasks : Manager(t) \/ LockBlock(t)
    \/ Ensure("p1")
    \/ ensure_start("p1", 1)
    \/ \E t \in Callers : Request(t)
    \/ \E t \in Callers, sid \in ServerIds, op \in {"call_tool", "get_resource"} :
          request_start(t, op, sid)
    \/ Quiescent /\ Config

SpecRace == InitAgg /\ [][NextRace]_vars

\* Chat requests of the users, arriving at any time; the owners change
\* their rows between them.
ChatStep(r) ==
    \/ chat_load(r)
    \/ chat_fetch(r)
    \/ \E ok \in BOOLEAN : chat_tools(r, ok)
    \/ chat_return(r)

NextChat ==
    \/ \E r \in Chatters, u \in Users : chat_start(r, u)
    \/ \E r \in Chatters : ChatStep(r)
    \/ Config

SpecChat == Init /\ [][NextChat]_vars

\* One session object, its methods called in any order.
InitClient ==
    /\ store = [id \in ServerIds |->
                  [exists |-> TRUE, user_id |-> 1, enabled |-> TRUE,
                   server_type |-> "stdio"]]
    /\ _clients = EmptyRegistry
    /\ _lock = "none"
    /\ waiters = <<>>
    /\ obj = EmptyHeap
    /\ task = [t \in Tasks |-> IdleFrame]
    /\ pass = [p \in Passes |-> IdlePass]
    /\ call = [c \in Callers |-> IdleCall]
    /\ agg = [g \in Aggs |-> IdleAgg]
    /\ running = "none"
    /\ leaked = {}
    /\ last = 0
    /\ \E server_type \in {"stdio", "http"}, command \in {"", "uvx"} :
          unit = FreshUnit(server_type, command)
    /\ chat = IdleChat

NextClient ==
    \/ \E step \in ConnectSteps : unit_connect(step)
    \/ \E close_raises \in BOOLEAN : unit_disconnect(close_raises)
    \/ \E kind \in {"tools", "resources"}, ok \in BOOLEAN : unit_list(kind, ok)
    \/ \E e \in Replies : unit_call_tool(e)
    \/ \E e \in Replies : unit_get_resource(e)

SpecClient == InitClient /\ [][NextClient]_vars

\* ------------------------------------------------------------ properties
PassDone(p) == task[p].pc = "done"
CallDone(t, op) == task[t].pc = "done" /\ call[t].op = op
Session(s) == obj[_clients[s]]
IsRegistered(s) == _clients[s] # None

\* The sessions that count for provider `sid`: the registered one, one that
\* add_client is connecting (past its duplicate check), one that
\* remove_client is disconnecting.
LiveFor(sid) ==
    {c \in ClientIds :
        /\ obj[c].alloc
        /\ obj[c].server_id = sid
        /\ \/ _clients[sid] = c
           \/ \E t \in Tasks :
                 /\ task[t].mop \in {"add_connecting", "rm_disconnecting"}
                 /\ task[t].marg_client = c}

\* C1: under every interleaving of add_client and remove_client there is at
\* most one session per provider id, and while add_client connects a new
\* session for an id no older session for that id is registered or being
\* disconnected.
C1_OneSessionPerProvider ==
    \A sid \in ServerIds : Cardinality(LiveFor(sid)) <= 1

\* C1 witness: an add_client for an id waits for the lock while another
\* add_client is connecting a session for the same id.
C1_Witness ==
    \E t1 \in Tasks, t2 \in Tasks :
        /\ task[t1].mop = "add_acq" /\ InWaiters(t1)
        /\ task[t2].mop = "add_connecting"
        /\ obj[task[t1].marg_client].server_id
              = obj[task[t2].marg_client].server_id

\* What a connected registered session lists, tagged with that session's own
\* id and name.
ListedBy(s, kind) ==
    {[name |-> e.name, sid |-> s, sname |-> NameOf(s)] :
        e \in CacheOf(Session(s), kind).items}

\* C2: the list get_all_tools / get_all_resources returns is exactly the
\* union of what every registered Connected session lists, each entry tagged
\* with its session's id and name, and holds nothing of a session that is
\* not Connected.
C2_AggregateIsUnionOfConnected ==
    \A g \in Aggs :
        task[g].pc = "done" =>
            agg[g].out = UNION {ListedBy(s, agg[g].kind) :
                                  s \in {r \in ServerIds :
                                           /\ IsRegistered(r)
                                           /\ is_connected(Session(r))}}

\* C2 witness: a query has returned entries of a Connected session while a
\* registered session that is not Connected still holds a cached list.
C2_Witness ==
    \E g \in Aggs, s \in ServerIds, r \in ServerIds :
        /\ task[g].pc = "done"
        /\ IsRegistered(s) /\ is_connected(Session(s))
        /\ ListedBy(s, agg[g].kind) # {}
        /\ ListedBy(s, agg[g].kind) \subseteq agg[g].out
        /\ IsRegistered(r) /\ ~is_connected(Session(r))
        /\ CacheOf(Session(r), agg[g].kind).items # {}

\* C3: when a reconcile pass ends, every enabled provider whose connect did
\* not fail is registered and Connected, whatever happened to the others.
C3_FailureDoesNotStopThePass ==
    \A p \in Passes :
        PassDone(p) =>
            /\ pass[p].todo = <<>>
            /\ \A s \in pass[p].enabled \ pass[p].failed :
                  IsRegistered(s) /\ is_connected(Session(s))

\* C3 witness: a pass has ended in which one provider failed to connect and
\* another was connected.
C3_Witness ==
    \E p \in Passes :
        PassDone(p) /\ pass[p].failed # {} /\ pass[p].ok # {}

\* C4: when a reconcile pass of a user ends, no provider of that user that
\* is not enabled has a registered session, and every session the pass
\* removed is not Connected.
C4_DisabledProviderIsRemoved ==
    \A p \in Passes :
        PassDone(p) =>
            /\ \A s \in ServerIds :
                  (OwnerOf(s) = pass[p].owner /\ s \notin pass[p].enabled)
                      => ~IsRegistered(s)
            /\ ~task[p].rm_live

\* C4 witness: a pass has ended that found a session registered for a
\* disabled provider of its user, after a row of that user was deleted.
C4_Witness ==
    \E p \in Passes, s \in ServerIds, d \in ServerIds :
        /\ PassDone(p)
        /\ s \in pass[p].found_stale
        /\ OwnerOf(s) = pass[p].owner
        /\ ~store[s].enabled
        /\ OwnerOf(d) = pass[p].owner
        /\ ~store[d].exists

NoSideEffects(p) ==
    /\ task[p].nconnect = 0
    /\ task[p].ndisconnect = 0
    /\ Registered = pass[p].snap

\* C5 as stated: a reconcile pass that directly follows a pass of the same
\* user, with no configuration change between them, attempts no connect and
\* no disconnect and leaves the registry and every session unchanged.
C5_Original ==
    \A p \in Passes :
        (PassDone(p) /\ pass[p].repeat) => NoSideEffects(p)

\* C5 amended: the same, for a second pass that starts with every enabled
\* provider of the user registered and Connected.
C5_IdempotentWhenAllConnected ==
    \A p \in Passes :
        (/\ PassDone(p)
         /\ pass[p].repeat
         /\ \A s \in pass[p].enabled : is_connected(pass[p].snap[s]))
            => NoSideEffects(p)

\* C5 witness: such a second pass has ended, with an enabled provider.
C5_Witness ==
    \E p \in Passes :
        /\ PassDone(p)
        /\ pass[p].repeat
        /\ pass[p].enabled # {}
        /\ \A s \in pass[p].enabled : is_connected(pass[p].snap[s])

\* C6: a call_tool whose first attempt fails because the connection is
\* closed performs exactly one reconnect-and-retry; a successful retry's
\* result is returned, and otherwise the first error is raised after at most
\* two attempts.
C6_ExactlyOneRetry ==
    \A t \in Callers :
        (CallDone(t, "call_tool") /\ call[t].first.kind = "closed") =>
            /\ task[t].nconnect = 1
            /\ call[t].ncalls <= 2
            /\ (call[t].ncalls = 2 /\ call[t].second = NoExc)
                  => (call[t].result.kind = "ok" /\ call[t].result.attempt = 2)
            /\ (call[t].ncalls = 1 \/ call[t].second # NoExc)
                  => (call[t].result.kind = "error"
                      /\ call[t].result.err = call[t].first)

\* C7: call_tool on an id whose session is missing or not Connected raises
\* the not-found / not-connected error, sends nothing, neither disconnects
\* nor connects, and leaves the registry and the sessions as they were.
C7_NotConnectedFailsWithoutEffect ==
    \A t \in Callers :
        (/\ CallDone(t, "call_tool")
         /\ call[t].solo
         /\ ~is_connected(call[t].before[call[t].sid]))
            => /\ call[t].result.kind \in {"ValueError: not found",
                                           "ValueError: not connected"}
               /\ call[t].ncalls = 0
               /\ task[t].nconnect = 0
               /\ task[t].ndisconnect = 0
               /\ Registered = call[t].before

\* C7 witness: call_tool has failed on a registered session that is not
\* Connected.
C7_Witness ==
    \E t \in Callers :
        /\ CallDone(t, "call_tool")
        /\ call[t].solo
        /\ call[t].before[call[t].sid].alloc
        /\ ~is_connected(call[t].before[call[t].sid])
        /\ call[t].result.kind = "ValueError: not connected"

\* C8: an error the provider reports for a well-formed call is raised after
\* exactly one attempt, with no disconnect, no reconnect and no second call,
\* whatever its text.
C8_SemanticErrorNeverRetried ==
    \A t \in Callers :
        (CallDone(t, "call_tool") /\ call[t].first.kind = "semantic") =>
            /\ call[t].ncalls = 1
            /\ task[t].nconnect = 0
            /\ task[t].ndisconnect = 0

TransportKinds == {"closed", "broken_pipe", "process_exited"}

\* The error of the attempt that made the call fail.
FailedAttempt(t) ==
    IF call[t].second # NoExc THEN call[t].second ELSE call[t].first

\* C9: when call_tool has failed because an attempt met a closed connection,
\* a broken pipe or an exited provider process, the session is not Connected
\* once the call has returned.
C9_TransportFailureDisconnects ==
    \A t \in Callers :
        (/\ CallDone(t, "call_tool")
         /\ call[t].result.kind = "error"
         /\ task[t].client # None
         /\ FailedAttempt(t).kind \in TransportKinds)
            => ~is_connected(obj[task[t].client])

\* C10: get_resource follows call_tool's policy: a missing or disconnected
\* session is reported as an error, a transport failure takes the session
\* out of Connected and is followed by exactly one reconnect-and-retry, and
\* a failed retry raises the first error.
C10_GetResourceSamePolicy ==
    \A t \in Callers :
        CallDone(t, "get_resource") =>
            /\ (call[t].solo /\ ~is_connected(call[t].before[call[t].sid]))
                  => call[t].result.kind \in {"ValueError: not found",
                                              "ValueError: not connected"}
            /\ call[t].first.kind \in TransportKinds
                  => /\ task[t].nconnect = 1
                     /\ (call[t].result.kind # "ok"
                            => /\ call[t].result.kind = "error"
                               /\ call[t].result.err = call[t].first
                               /\ ~is_connected(obj[task[t].client]))

\* C11: connect() on a session that is already Connected returns success,
\* starts no child process and leaves the session's transport, protocol
\* session and caches as they were.
C11_ConnectIdempotent ==
    (unit.op = "connect" /\ is_connected(unit.before)) =>
        /\ unit.ret = "True"
        /\ unit.spawned = ""
        /\ unit.o = unit.before

\* C12: when connect() returns failure the session is not Connected and
\* holds no transport, whichever step failed.
C12_FailedConnectReleases ==
    (unit.op = "connect" /\ unit.ret = "False") =>
        /\ ~is_connected(unit.o)
        /\ unit.o.stack = 0

\* C12 witness: connect() has failed after the child process was started
\* and the protocol session was created.
C12_Witness ==
    /\ unit.op = "connect"
    /\ unit.ret = "False"
    /\ unit.step = "initialize"
    /\ unit.spawned # ""

Cleared(o) == ~o.tools_cache.some /\ ~o.resources_cache.some

UnitKind == IF unit.op = "list_tools" THEN "tools" ELSE "resources"

\* C14: list_tools() and list_resources() return the cached list on a
\* Connected session that has one and the empty list on a session that is
\* not Connected, and neither opens a transport.
C14_ListOnlyWhenConnected ==
    unit.op \in {"list_tools", "list_resources"} =>
        /\ (is_connected(unit.before) /\ CacheOf(unit.before, UnitKind).some)
              => unit.out = CacheOf(unit.before, UnitKind).items
        /\ ~is_connected(unit.before) => unit.out = {}
        /\ unit.o.stack = unit.before.stack
        /\ is_connected(unit.o) = is_connected(unit.before)

\* C19: connect() of a pipe session that has no command returns failure,
\* starts no child process and leaves the session not Connected.
C19_MissingCommandRejected ==
    (/\ unit.op = "connect"
     /\ unit.before.server_type = "stdio"
     /\ unit.command = "")
        => /\ unit.ret = "False"
           /\ unit.spawned = ""
           /\ ~is_connected(unit.o)

\* The server id add_client was offered a session for.
OfferedId(t) == obj[task[t].marg_client].server_id

\* add_client returns False on its duplicate check.
AddRejected(t) ==
    /\ task[t].mop = "add_acq"
    /\ task'[t].mop # "add_acq"
    /\ IsRegistered(OfferedId(t))

\* add_client returns after connect().
AddFinished(t) == task[t].mop = "add_connecting" /\ task'[t].mop = "none"

\* The add_client that rejects a duplicate has no side effect.
RejectedWithoutEffect(t) ==
    AddRejected(t) =>
        /\ task'[t].mop = "none"
        /\ ~task'[t].mok
        /\ Registered' = Registered
        /\ task'[t].nconnect = task[t].nconnect
        /\ ~obj[task[t].marg_client].connected
        /\ obj[task[t].marg_client].stack = 0

RemoveReturns(t) ==
    /\ task[t].mop \in {"rm_acq", "rm_disconnecting"}
    /\ task'[t].mop = "none"

\* C16: remove_client(id) returns false and changes nothing when id is not
\* registered; otherwise the entry stays while the session is disconnected,
\* then it is deleted, true is returned and the session is not Connected.
C16_RemoveClient ==
    [][\A t \in Tasks :
          LET id == task[t].marg
          IN /\ (RemoveReturns(t) /\ ~IsRegistered(id)) =>
                    /\ ~task'[t].mok
                    /\ Registered' = Registered
                    /\ task'[t].ndisconnect = task[t].ndisconnect
             /\ (task[t].mop = "rm_acq" /\ task'[t].mop = "rm_disconnecting") =>
                    /\ IsRegistered(id)
                    /\ _clients' = _clients
             /\ (RemoveReturns(t) /\ IsRegistered(id)) =>
                    /\ task'[t].mok
                    /\ ~Registered'[id].alloc
                    /\ \A s \in ServerIds \ {id} : Registered'[s] = Registered[s]
                    /\ task'[t].ndisconnect = task[t].ndisconnect
                          + (IF task[t].mop = "rm_acq" THEN 1 ELSE 0)
                    /\ ~task'[t].rm_live]_vars

\* C16 witness: remove_client is disconnecting a Connected session whose
\* entry is still in the registry.
C16_Witness ==
    \E t \in Tasks :
        /\ task[t].mop = "rm_disconnecting"
        /\ IsRegistered(task[t].marg)
        /\ is_connected(Session(task[t].marg))

\* Pass p has finished and so has the pass of the same owner that ran
\* concurrently with it.
BothFinished(p) ==
    /\ PassDone(p)
    /\ pass[p].overlap = "finished"
    /\ \A q \in Passes \ {p} : task[q].pc = "idle"

OpenFor(sid) ==
    {c \in ClientIds : obj[c].alloc /\ obj[c].server_id = sid /\ obj[c].stack > 0}

\* Two passes of one owner are or were in flight together.
PairInFlight == \E p \in Passes : pass[p].overlap # "no"

\* (leaked keeps its value over the steps that leave the heap alone.)
\* Every transport the step dropped while open belonged to a session that had
\* already lost its connection before the step (none that a pass connected).
LeakOnlyStale ==
    \A s \in leaked' : \E d \in ClientIds :
        /\ obj[d].alloc /\ obj[d].server_id = s
        /\ obj[d].stack > 0 /\ ~is_connected(obj[d])

PairSettled ==
    \A p \in Passes :
        BothFinished(p) =>
            /\ \A s \in (list_mcp_servers(pass[p].owner)
                           \cap (pass[p].enabled \cup pass[p].peer_enabled))
                        \ (pass[p].connfail \cup pass[p].peer_connfail) :
                  IsRegistered(s) /\ is_connected(Session(s))
            /\ \A sid \in ServerIds :
                  /\ Cardinality(OpenFor(sid)) <= 1
                  /\ \A c \in OpenFor(sid) : obj[c].stack = 1 /\ _clients[sid] = c

\* C17: when two concurrent reconcile passes of one owner have both
\* finished, every enabled provider of the owner that either pass read and
\* none of whose connects failed has a registered Connected session, no
\* provider id has more than one open transport and every open transport is
\* the registered session's; and no step taken while the two were in flight
\* drops a session that a pass connected with its transport still open.
C17_ConcurrentPassesSameOwner ==
    /\ []PairSettled
    /\ [][(PairInFlight /\ obj' # obj) => LeakOnlyStale]_vars

\* C18: every connect() that add_client awaits returns, whether or not the
\* provider answers the handshake.
C18_ConnectReturns ==
    \A t \in Passes :
        (task[t].mop = "add_connecting") ~> (task[t].mop # "add_connecting")

\* C20: between the calls of its methods a session that is Connected has a
\* transport open on its exit stack and a session that is not Connected has
\* none.
C20_ConnectedIffTransport ==
    unit.o.alloc => (is_connected(unit.o) <=> unit.o.stack > 0)

\* The coroutine t is suspended part-way through connect(), disconnect() or
\* call_tool() of the session object c.
InMethod(t, c) ==
    \/ task[t].pc \in {"call1", "call2", "disc", "conn"} /\ task[t].client = c
    \/ task[t].mop \in {"add_connecting", "rm_disconnecting"}
          /\ task[t].marg_client = c

\* C21: at no time are two coroutines part-way through connect(),
\* disconnect() or call_tool() of the same session.
C21_SessionCallsExclusive ==
    \A c \in ClientIds :
        obj[c].alloc => Cardinality({t \in Tasks : InMethod(t, c)}) <= 1

\* The coroutine w waits for the registry lock, for a provider id other than
\* the one whose handshake the lock's holder t is awaiting.
DelayedBy(w, t) ==
    /\ InWaiters(w)
    /\ _lock = t
    /\ task[t].mop = "add_connecting"
    /\ task[w].mop \in {"get_acq", "add_acq", "rm_acq"}
    /\ task[w].marg # obj[task[t].marg_client].server_id

\* C22: the registry lock is not held while a provider's handshake is in
\* progress, so no registry call for another provider id waits behind it.
C22_LockNotHeldDuringIO ==
    \A t \in Tasks :
        task[t].mop = "add_connecting" =>
            /\ _lock # t
            /\ \A w \in Tasks : ~DelayedBy(w, t)

\* C23: a reconcile pass never removes a Connected session that another
\* pass still in flight has connected and registered.
C23_NeverRemovesPeersSession ==
    \A p \in Passes : \A q \in Passes \ {p} :
        (/\ task[p].mop = "rm_disconnecting"
         /\ task[q].pc # "idle")
            => task[p].marg \notin pass[q].ok

\* connect() has just returned True on the session.
JustConnected == unit.op = "connect" /\ unit.ret = "True"

\* C24: after a successful connect() both caches of the session are filled,
\* and filled by this connection: none was already set when connect() began.
C24_ConnectFillsCaches ==
    JustConnected =>
        /\ unit.o.tools_cache.some /\ unit.o.resources_cache.some
        /\ ~unit.before.tools_cache.some /\ ~unit.before.resources_cache.some

\* The session object c, which a request obtained from get_client, is no
\* longer in the registry: remove_client has deleted it and returned.
RemovedUnder(t, c) ==
    /\ task[t].client = c
    /\ c # None
    /\ \A s \in ServerIds : _clients[s] # c

\* C25: a session that remove_client has removed is not Connected and holds
\* no open transport, whatever a request still using it does afterwards.
C25_RemovedStaysClosed ==
    \A t \in Callers : \A c \in ClientIds :
        RemovedUnder(t, c) => ~is_connected(obj[c]) /\ obj[c].stack = 0

\* Provider s is enabled in the store for an owner other than pass p's.
EnabledForOther(p, s) ==
    /\ store[s].exists /\ store[s].enabled
    /\ OwnerOf(s) # pass[p].owner

\* C26: with sessions of both owners in the registry, no remove_client issued
\* by a reconcile pass takes out of it the session of a provider that is
\* enabled for a different owner.
C26_OtherOwnersSessionKept ==
    [][\A p \in Passes : \A s \in ServerIds :
          (/\ task[p].mop \in {"rm_acq", "rm_disconnecting"}
           /\ task[p].marg = s
           /\ EnabledForOther(p, s)
           /\ IsRegistered(s)
           /\ \E r \in ServerIds : IsRegistered(r) /\ OwnerOf(r) = pass[p].owner)
              => _clients'[s] # None]_vars

\* The delete_server request t names a row that exists and belongs to
\* another user (its store delete will affect no row and it will end in 404),
\* and a Connected session is registered under that id.
ForeignDelete(t) ==
    /\ call[t].op = "delete_server"
    /\ task[t].mop \in {"rm_acq", "rm_disconnecting"}
    /\ store[call[t].sid].exists
    /\ OwnerOf(call[t].sid) # call[t].user
    /\ IsRegistered(call[t].sid)
    /\ is_connected(Session(call[t].sid))

\* C27: no step of such a request takes the session out of the registry or
\* disconnects it.
C27_ForeignDeleteKeepsSession ==
    [][\A t \in Callers :
          ForeignDelete(t) =>
              /\ _clients'[call[t].sid] # None
              /\ is_connected(obj'[_clients'[call[t].sid]])]_vars

\* The chat request r has its agent: the tool fetch has answered.
AgentBuilt(r) == chat.req[r].pc = "run"

Inserted(s) == _clients[s] = None /\ _clients'[s] # None

\* The retry of call_tool has ended in a connect() that failed: one connect,
\* and no second call.
RetryConnectFailed(t) ==
    /\ CallDone(t, "call_tool")
    /\ task[t].nconnect = 1
    /\ call[t].ncalls = 1
    /\ call[t].result.kind = "error"

\* Every insertion into the registry is made by an add_client whose connect()
\* has just succeeded, add_client returns true exactly when it inserted the
\* session it was given, and an add_client whose connect fails leaves the id
\* without a session.
InsertedByAddClient ==
    [][/\ \A s \in ServerIds :
             Inserted(s) =>
                 \E t \in Tasks :
                     /\ AddFinished(t)
                     /\ OfferedId(t) = s
                     /\ task'[t].mok
                     /\ is_connected(Registered'[s])
       /\ \A t \in Tasks :
             /\ AddFinished(t) =>
                   /\ task'[t].mok <=> Inserted(OfferedId(t))
                   /\ ~task'[t].mok => _clients'[OfferedId(t)] = None
             /\ AddRejected(t) =>
                   (~task'[t].mok /\ _clients' = _clients)]_vars

InAggregate == \E g \in Aggs : task[g].mop \in {"agg_loop", "agg_fetch"}

\* C30: get_all_tools and get_all_resources leave every session's cached
\* lists as they were: a session that holds a cached list returns, from
\* list_tools() / list_resources(), the same entries with the same fields
\* after a step of an aggregate query as before it.
C30_AggregateKeepsCaches ==
    [][InAggregate =>
          \A c \in ClientIds : \A kind \in {"tools", "resources"} :
              (obj[c].alloc /\ CacheOf(obj[c], kind).some) =>
                  CacheOf(obj'[c], kind) = CacheOf(obj[c], kind)]_vars

====
